---- MODULE Spec2Model ----
(***************************************************************************)
(* Model of convert_yolov8_to_coreml.py: the interactive script that       *)
(* optionally installs its dependencies, shows a menu, loads a YOLOv8      *)
(* weights file, calls the library's export() and checks that the          *)
(* exported package exists.                                                *)
(*                                                                         *)
(* One run of main() is a sequential process; pc is its position.  Every   *)
(* external call (import, pip, input, YOLO, export, Path.exists) is one    *)
(* step whose outcome is drawn from the outcomes the call can have.        *)
(* Text is modelled as sequences of one-character strings so that          *)
(* str.lower(), string equality, list membership and the f-string          *)
(* concatenations are computed as Python computes them.                    *)
(*                                                                         *)
(* Environment assumptions (not in the source): print() does not raise,    *)
(* and Path.stat() succeeds on a path for which Path.exists() has just     *)
(* returned True.                                                          *)
(***************************************************************************)
EXTENDS Naturals, Sequences, FiniteSets

VARIABLES
    pc,          \* position of the run inside main() and its callees
    run,         \* 1 for the first invocation of the script, 2 for a second one
    first,       \* <<>> or <<observables of the first invocation>>
    env,         \* outcome of each external call, fixed once it has happened
    choice,      \* main(): local `choice` (line 135)
    sizeIn,      \* convert_different_sizes(): the raw line read at line 84
    size,        \* convert_different_sizes(): local `choice` (lower-cased)
    model_name,  \* convert_different_sizes(): local `model_name` (line 87)
    success,     \* main(): local `success`, the callee's return value
    raised,      \* exception that propagated out of main(), or "none"
    out,         \* messages printed so far, in order
    calls,       \* external calls made so far, in order
    loads,       \* arguments of the YOLO(...) calls, in order
    exports,     \* keyword arguments of the export(...) calls, in order
    checks       \* paths whose existence was tested, in order

vars == <<pc, run, first, env, choice, sizeIn, size, model_name, success,
          raised, out, calls, loads, exports, checks>>

----------------------------------------------------------------------------
(* Bounds of the model *)

\* longest line typed at a prompt
MaxLen == 2

\* characters that can be typed at a prompt
Alphabet == {"1", "2", "3", " ", "n", "N", "s", "m", "l", "x", "X", "q"}

RECURSIVE StringsOfLen(_)
StringsOfLen(k) ==
    IF k = 0 THEN {<<>>}
    ELSE {Append(s, c) : s \in StringsOfLen(k - 1), c \in Alphabet}

\* every line input() can return
Lines == UNION {StringsOfLen(k) : k \in 0..MaxLen}

\* a local variable that has not been assigned
Unset == <<"unset">>

----------------------------------------------------------------------------
(* Outcomes of the external calls *)

\* `import ultralytics` / `from ultralytics import YOLO`
ImportOutcomes == {"ok", "ImportError", "Exception"}

\* os.system("pip install ..."): the exit status is ignored by the script
PipOutcomes == {"ok", "failed"}

\* YOLO(...) and model.export(...): return, raise an Exception, or be
\* interrupted (KeyboardInterrupt is a BaseException, not an Exception)
CallOutcomes == {"ok", "Exception", "KeyboardInterrupt"}

\* Path.exists()
ExistsOutcomes == {"yes", "no"}

\* The outcome o of external call k: free the first time the call is made,
\* the same when the script is invoked again in the same environment.
Oracle(k, o) ==
    /\ env[k] \in {"unset", o}
    /\ env' = [env EXCEPT ![k] = o]

----------------------------------------------------------------------------
(* Text *)

\* str.lower() on one character
LowerChar(c) ==
    CASE c = "N" -> "n"
      [] c = "S" -> "s"
      [] c = "M" -> "m"
      [] c = "L" -> "l"
      [] c = "X" -> "x"
      [] c = "Q" -> "q"
      [] OTHER   -> c

\* str.lower()
Lower(s) == [i \in 1..Len(s) |-> LowerChar(s[i])]

Prefix == <<"y", "o", "l", "o", "v", "8">>
PtExt  == <<".", "p", "t">>
PkgExt == <<".", "m", "l", "p", "a", "c", "k", "a", "g", "e">>

\* 'yolov8n.pt' (line 29) and "yolov8n.mlpackage" (line 46)
Weights_n == <<"y", "o", "l", "o", "v", "8", "n", ".", "p", "t">>
Package_n == <<"y", "o", "l", "o", "v", "8", "n", ".", "m", "l", "p", "a", "c", "k", "a", "g", "e">>

\* f"yolov8{choice}", f'{model_name}.pt', f"{model_name}.mlpackage"
ModelName(c)   == Prefix \o c
WeightsFile(m) == m \o PtExt
PackagePath(m) == m \o PkgExt

\* `choice in ['n', 's', 'm', 'l', 'x']`: equality with one element of the list
size_valid_substring(c) ==
    \E i \in 0..5, j \in 0..5 : c = SubSeq(<<"n", "s", "m", "l", "x">>, i + 1, j)
size_valid(c) == c \in {<<"n">>, <<"s">>, <<"m">>, <<"l">>, <<"x">>}

----------------------------------------------------------------------------
(* Fixed configuration *)

export_kwargs_c_no_half ==
    [format |-> "coreml", imgsz |-> 640, simplify |-> TRUE, nms |-> TRUE,
     int8 |-> TRUE, half |-> FALSE, device |-> "cpu"]

\* model.export(...) in download_and_convert_yolov8
export_kwargs_d ==
    [format |-> "coreml", imgsz |-> 640, simplify |-> TRUE, nms |-> TRUE,
     int8 |-> TRUE, half |-> TRUE, device |-> "cpu"]

\* model.export(...) in convert_different_sizes
export_kwargs_c ==
    [format |-> "coreml", imgsz |-> 640, simplify |-> TRUE, nms |-> TRUE,
     int8 |-> TRUE, half |-> TRUE, device |-> "cpu"]

----------------------------------------------------------------------------
(* Exception handlers *)

\* the modelled exceptions that are subclasses of Exception
ExceptionClasses == {"ImportError", "Exception", "EOFError"}

main_except_always(e) == TRUE
\* main(): `except ImportError:` around `import ultralytics`
main_except(e) == e = "ImportError"

\* download_and_convert_yolov8(): `except ImportError as e:`
d_except_ImportError(e) == e = "ImportError"

\* download_and_convert_yolov8(): `except Exception as e:`
d_except_Exception(e) == e \in ExceptionClasses

c_except_not_import(e) == e \in ExceptionClasses \ {"ImportError"}
\* convert_different_sizes(): `except Exception as e:`
c_except_Exception(e) == e \in ExceptionClasses

\* truth value of `success` in `if success:`
Truthy(v) == v = "True"

----------------------------------------------------------------------------
(* main() *)

Banner == "BatSight YOLOv8 Core ML Converter"

\* the two final messages of main()
FinalSuccess == "Conversion completed successfully!"
FinalFailed  == "Conversion failed. Check the error messages above."

Init ==
    /\ pc = "start"
    /\ run = 1
    /\ first = <<>>
    /\ env = [k \in {"startup", "pip", "import", "load", "export", "exists"} |-> "unset"]
    /\ choice = Unset
    /\ sizeIn = Unset
    /\ size = Unset
    /\ model_name = Unset
    /\ success = "unset"
    /\ raised = "none"
    /\ out = <<>>
    /\ calls = <<>>
    /\ loads = <<>>
    /\ exports = <<>>
    /\ checks = <<>>

\* lines 119-127: the banner and the startup `import ultralytics`
MainStart ==
    /\ pc = "start"
    /\ \E o \in ImportOutcomes :
        /\ Oracle("startup", o)
        /\ calls' = Append(calls, "import ultralytics")
        /\ IF o = "ok"
           THEN /\ out' = out \o <<Banner, "Ultralytics already installed">>
                /\ pc' = "menu"
                /\ UNCHANGED raised
           ELSE IF main_except(o)
           THEN /\ out' = Append(out, Banner)
                /\ pc' = "install"
                /\ UNCHANGED raised
           ELSE /\ out' = Append(out, Banner)
                /\ raised' = o
                /\ pc' = "done"
    /\ UNCHANGED <<run, first, choice, sizeIn, size, model_name, success,
                   loads, exports, checks>>

\* lines 11-18, called from line 127
install_requirements ==
    /\ pc = "install"
    /\ \E o \in PipOutcomes : Oracle("pip", o)
    /\ calls' = Append(calls, "pip install ultralytics coremltools")
    /\ out' = out \o <<"Installing required packages...",
                       "Requirements installed successfully">>
    /\ pc' = "menu"
    /\ UNCHANGED <<run, first, choice, sizeIn, size, model_name, success,
                   raised, loads, exports, checks>>

Dispatch_reprompt(c) ==
    IF c = <<"1">> THEN [to |-> "d_import", say |-> <<>>]
    ELSE IF c = <<"2">> THEN [to |-> "c_input", say |-> <<>>]
    ELSE IF c = <<"3">> THEN [to |-> "done", say |-> <<"Goodbye!">>]
    ELSE [to |-> "menu", say |-> <<"Invalid choice">>]

Dispatch_exit_converts(c) ==
    IF c = <<"1">> \/ c = <<"3">> THEN [to |-> "d_import", say |-> <<>>]
    ELSE IF c = <<"2">> THEN [to |-> "c_input", say |-> <<>>]
    ELSE [to |-> "done", say |-> <<"Invalid choice">>]

\* lines 137-146: where the menu choice leads and what is printed there
Dispatch(c) ==
    IF c = <<"1">> THEN [to |-> "d_import", say |-> <<>>]
    ELSE IF c = <<"2">> THEN [to |-> "c_input", say |-> <<>>]
    ELSE IF c = <<"3">> THEN [to |-> "done", say |-> <<"Goodbye!">>]
    ELSE [to |-> "done", say |-> <<"Invalid choice">>]

\* lines 130-146: the menu, the read of the choice and the dispatch on it
MainMenu ==
    /\ pc = "menu"
    /\ calls' = Append(calls, "input: Enter your choice (1-3)")
    /\ \/ \E s \in Lines :
            /\ choice' = s
            /\ out' = out \o <<"What would you like to do?">> \o Dispatch(s).say
            /\ pc' = Dispatch(s).to
            /\ UNCHANGED raised
       \/ \E e \in {"EOFError", "KeyboardInterrupt"} :
            /\ out' = Append(out, "What would you like to do?")
            /\ raised' = e
            /\ pc' = "done"
            /\ UNCHANGED choice
    /\ UNCHANGED <<run, first, env, sizeIn, size, model_name, success,
                   loads, exports, checks>>

\* lines 148-152: the final verdict
MainVerdict ==
    /\ pc = "verdict"
    /\ out' = Append(out, IF Truthy(success) THEN FinalSuccess ELSE FinalFailed)
    /\ pc' = "done"
    /\ UNCHANGED <<run, first, env, choice, sizeIn, size, model_name, success,
                   raised, calls, loads, exports, checks>>

----------------------------------------------------------------------------
(* download_and_convert_yolov8(), menu option 1 *)

\* lines 62-68: exception e raised inside the try block, after `said` was printed
d_raise(e, said) ==
    IF d_except_ImportError(e)
    THEN /\ out' = out \o said \o <<"Import error",
                                    "Please run: pip install ultralytics coremltools">>
         /\ success' = "False"
         /\ pc' = "verdict"
         /\ UNCHANGED raised
    ELSE IF d_except_Exception(e)
    THEN /\ out' = out \o said \o <<"Conversion error">>
         /\ success' = "False"
         /\ pc' = "verdict"
         /\ UNCHANGED raised
    ELSE /\ out' = out \o said
         /\ raised' = e
         /\ pc' = "done"
         /\ UNCHANGED success

\* lines 23-25: `from ultralytics import YOLO`
d_import ==
    /\ pc = "d_import"
    /\ calls' = Append(calls, "from ultralytics import YOLO")
    /\ \E o \in ImportOutcomes :
        /\ Oracle("import", o)
        /\ IF o = "ok"
           THEN /\ out' = Append(out, "Starting YOLOv8 to Core ML conversion...")
                /\ pc' = "d_load"
                /\ UNCHANGED <<success, raised>>
           ELSE d_raise(o, <<>>)
    /\ UNCHANGED <<run, first, choice, sizeIn, size, model_name,
                   loads, exports, checks>>

\* lines 28-29: model = YOLO('yolov8n.pt')
d_load ==
    /\ pc = "d_load"
    /\ calls' = Append(calls, "YOLO")
    /\ loads' = Append(loads, Weights_n)
    /\ \E o \in CallOutcomes :
        /\ Oracle("load", o)
        /\ IF o = "ok"
           THEN /\ out' = Append(out, "Downloading YOLOv8n model...")
                /\ pc' = "d_export"
                /\ UNCHANGED <<success, raised>>
           ELSE d_raise(o, <<"Downloading YOLOv8n model...">>)
    /\ UNCHANGED <<run, first, choice, sizeIn, size, model_name,
                   exports, checks>>

\* lines 32-43: model.export(...) and the message that follows it
d_export ==
    /\ pc = "d_export"
    /\ calls' = Append(calls, "export")
    /\ exports' = Append(exports, export_kwargs_d)
    /\ \E o \in CallOutcomes :
        /\ Oracle("export", o)
        /\ IF o = "ok"
           THEN /\ out' = out \o <<"Converting to Core ML format...",
                                   "YOLOv8n Core ML model created successfully!">>
                /\ pc' = "d_check"
                /\ UNCHANGED <<success, raised>>
           ELSE d_raise(o, <<"Converting to Core ML format...">>)
    /\ UNCHANGED <<run, first, choice, sizeIn, size, model_name,
                   loads, checks>>

\* lines 46-60: the existence check and the return value
d_check ==
    /\ pc = "d_check"
    /\ checks' = Append(checks, Package_n)
    /\ \E o \in ExistsOutcomes :
        /\ Oracle("exists", o)
        /\ IF o = "yes"
           THEN /\ calls' = calls \o <<"exists", "stat">>
                /\ out' = out \o <<"Model saved as", "Model size",
                                   "To add to your BatSight project">>
                /\ success' = "True"
           ELSE /\ calls' = Append(calls, "exists")
                /\ out' = Append(out, "Model file not found after conversion")
                /\ success' = "False"
    /\ pc' = "verdict"
    /\ UNCHANGED <<run, first, choice, sizeIn, size, model_name, raised,
                   loads, exports>>

----------------------------------------------------------------------------
(* convert_different_sizes(), menu option 2 *)

\* lines 110-112: exception e raised inside the try block, after `said` was printed
c_raise(e, said) ==
    IF c_except_Exception(e)
    THEN /\ out' = out \o said \o <<"Error converting {model_name}">>
         /\ success' = "False"
         /\ pc' = "verdict"
         /\ UNCHANGED raised
    ELSE /\ out' = out \o said
         /\ raised' = e
         /\ pc' = "done"
         /\ UNCHANGED success

\* lines 72-87 and 113-115: the size menu, the read of the size and its validation
c_input ==
    /\ pc = "c_input"
    /\ calls' = Append(calls, "input: Which model size would you like to convert?")
    /\ \/ \E s \in Lines :
            /\ sizeIn' = s
            /\ size' = Lower(s)
            /\ IF size_valid(Lower(s))
               THEN /\ model_name' = ModelName(Lower(s))
                    /\ out' = Append(out, "Available YOLOv8 model sizes:")
                    /\ pc' = "c_import"
                    /\ UNCHANGED success
               ELSE /\ out' = out \o <<"Available YOLOv8 model sizes:", "Invalid choice">>
                    /\ success' = "False"
                    /\ pc' = "verdict"
                    /\ UNCHANGED model_name
            /\ UNCHANGED raised
       \/ \E e \in {"EOFError", "KeyboardInterrupt"} :
            /\ out' = Append(out, "Available YOLOv8 model sizes:")
            /\ raised' = e
            /\ pc' = "done"
            /\ UNCHANGED <<sizeIn, size, model_name, success>>
    /\ UNCHANGED <<run, first, env, choice, loads, exports, checks>>

\* lines 89-91: `from ultralytics import YOLO`
c_import ==
    /\ pc = "c_import"
    /\ calls' = Append(calls, "from ultralytics import YOLO")
    /\ \E o \in ImportOutcomes :
        /\ Oracle("import", o)
        /\ IF o = "ok"
           THEN /\ out' = Append(out, "Converting {model_name}...")
                /\ pc' = "c_load"
                /\ UNCHANGED <<success, raised>>
           ELSE c_raise(o, <<>>)
    /\ UNCHANGED <<run, first, choice, sizeIn, size, model_name,
                   loads, exports, checks>>

\* line 92: model = YOLO(f'{model_name}.pt')
c_load ==
    /\ pc = "c_load"
    /\ calls' = Append(calls, "YOLO")
    /\ loads' = Append(loads, WeightsFile(model_name))
    /\ \E o \in CallOutcomes :
        /\ Oracle("load", o)
        /\ IF o = "ok"
           THEN /\ pc' = "c_export"
                /\ UNCHANGED <<out, success, raised>>
           ELSE c_raise(o, <<>>)
    /\ UNCHANGED <<run, first, choice, sizeIn, size, model_name,
                   exports, checks>>

\* lines 94-102: model.export(...)
c_export ==
    /\ pc = "c_export"
    /\ calls' = Append(calls, "export")
    /\ exports' = Append(exports, export_kwargs_c)
    /\ \E o \in CallOutcomes :
        /\ Oracle("export", o)
        /\ IF o = "ok"
           THEN /\ pc' = "c_check"
                /\ UNCHANGED <<out, success, raised>>
           ELSE c_raise(o, <<>>)
    /\ UNCHANGED <<run, first, choice, sizeIn, size, model_name,
                   loads, checks>>

\* lines 104-108: the existence check; when the path does not exist the
\* function runs off its end and returns None
c_check ==
    /\ pc = "c_check"
    /\ checks' = Append(checks, PackagePath(model_name))
    /\ \E o \in ExistsOutcomes :
        /\ Oracle("exists", o)
        /\ IF o = "yes"
           THEN /\ calls' = calls \o <<"exists", "stat">>
                /\ out' = out \o <<"{model_name}.mlpackage created successfully!",
                                   "Size">>
                /\ success' = "True"
           ELSE /\ calls' = Append(calls, "exists")
                /\ out' = out
                /\ success' = "None"
    /\ pc' = "verdict"
    /\ UNCHANGED <<run, first, choice, sizeIn, size, model_name, raised,
                   loads, exports>>

----------------------------------------------------------------------------
(* Specifications *)

Next ==
    \/ MainStart
    \/ install_requirements
    \/ MainMenu
    \/ d_import
    \/ d_load
    \/ d_export
    \/ d_check
    \/ c_input
    \/ c_import
    \/ c_load
    \/ c_export
    \/ c_check
    \/ MainVerdict

\* one invocation of the script
Spec == Init /\ [][Next]_vars

\* one invocation; a step that can be taken is eventually taken (the
\* interpreter runs the next statement, and every external call returns or raises)
FairSpec == Spec /\ WF_vars(Next)

IsFinal(m) == m \in {FinalSuccess, FinalFailed}

\* what one finished invocation did and said
Observed ==
    [choice |-> choice, size |-> size, loads |-> loads, exports |-> exports,
     checks |-> checks, success |-> success, raised |-> raised,
     final |-> SelectSeq(out, IsFinal)]

\* lines 154-155: the script is invoked a second time in the same environment
Rerun ==
    /\ pc = "done"
    /\ run = 1
    /\ first' = <<Observed>>
    /\ run' = 2
    /\ pc' = "start"
    /\ choice' = Unset
    /\ sizeIn' = Unset
    /\ size' = Unset
    /\ model_name' = Unset
    /\ success' = "unset"
    /\ raised' = "none"
    /\ out' = <<>>
    /\ calls' = <<>>
    /\ loads' = <<>>
    /\ exports' = <<>>
    /\ checks' = <<>>
    /\ UNCHANGED env

NextPair == Next \/ Rerun

\* two invocations of the script, one after the other, in the same environment
SpecPair == Init /\ [][NextPair]_vars

----------------------------------------------------------------------------
(* Vocabulary of the properties *)

Count(seq, x) == Cardinality({i \in DOMAIN seq : seq[i] = x})
Printed(m) == \E i \in DOMAIN out : out[i] = m
Called(c) == \E i \in DOMAIN calls : calls[i] = c

StartupImport == "import ultralytics"
Pip           == "pip install ultralytics coremltools"
MenuPrompt    == "input: Enter your choice (1-3)"
SizePrompt    == "input: Which model size would you like to convert?"
FuncImport    == "from ultralytics import YOLO"

NoConversion ==
    /\ loads = <<>>
    /\ exports = <<>>
    /\ checks = <<>>
    /\ ~Called(FuncImport)
    /\ ~Called("YOLO")
    /\ ~Called("export")
    /\ ~Called("exists")

NoVerdict == ~Printed(FinalSuccess) /\ ~Printed(FinalFailed)

\* the keyword arguments every export() call is claimed to get
FixedConfiguration ==
    [format |-> "coreml", imgsz |-> 640, simplify |-> TRUE, nms |-> TRUE,
     int8 |-> TRUE, half |-> TRUE, device |-> "cpu"]

\* the size lines that lower-case to one of n, s, m, l, x, with that code
SizeCodes ==
    {<<"n", "n">>, <<"N", "n">>, <<"s", "s">>, <<"S", "s">>, <<"m", "m">>,
     <<"M", "m">>, <<"l", "l">>, <<"L", "l">>, <<"x", "x">>, <<"X", "x">>}
ValidSizeLine(s) == Len(s) = 1 /\ \E p \in SizeCodes : p[1] = s[1]

\* export() returned without raising and the package existed at the check
ExportedAndFound ==
    /\ Called("export")
    /\ env["export"] = "ok"
    /\ checks # <<>>
    /\ env["exists"] = "yes"

\* the existence check was made and the package was not there
CheckedAndMissing == checks # <<>> /\ env["exists"] = "no"

----------------------------------------------------------------------------
(* C1: whenever the main-menu input is exactly "3", main() prints the       *)
(* goodbye message and returns without any conversion: no import inside a   *)
(* conversion function, no model load, no export(), no existence check, no  *)
(* size prompt and neither final message, whether or not ultralytics was    *)
(* importable at startup.                                                   *)
C1_ExitDoesNothing ==
    choice = <<"3">> =>
        /\ pc = "done"
        /\ raised = "none"
        /\ Printed("Goodbye!")
        /\ NoConversion
        /\ ~Called(SizePrompt)
        /\ NoVerdict
        /\ success = "unset"

\* option 3 taken after the startup import failed and pip was run
C1_Witness ==
    /\ choice = <<"3">>
    /\ env["startup"] = "ImportError"
    /\ Called(Pip)
    /\ pc = "done"

\* a call into the library failed with an Exception; the message printed for it
C2_LibraryFailed ==
    \/ Called(FuncImport) /\ env["import"] \in {"ImportError", "Exception"}
    \/ Called("YOLO") /\ env["load"] = "Exception"
    \/ Called("export") /\ env["export"] = "Exception"

C2_ErrorMessage ==
    IF choice = <<"1">>
    THEN IF Called(FuncImport) /\ env["import"] = "ImportError"
         THEN Printed("Import error") ELSE Printed("Conversion error")
    ELSE Printed("Error converting {model_name}")

(* C2: in both conversion functions (option 1, option 2 with a valid size)  *)
(* a failing in-function import, a YOLO(...) that raises an Exception or an *)
(* export() that raises an Exception is caught: an error message is         *)
(* printed, the function returns False, nothing propagates out of main(),   *)
(* and main() ends with the 'Conversion failed' message.                    *)
C2_ErrorsCaught ==
    C2_LibraryFailed =>
        /\ success = "False"
        /\ raised = "none"
        /\ C2_ErrorMessage
        /\ pc \in {"verdict", "done"}
        /\ ~Printed(FinalSuccess)
        /\ pc = "done" => (out # <<>> /\ out[Len(out)] = FinalFailed)

\* option 2: ultralytics missing at startup and still missing after pip
C2_Witness ==
    /\ choice = <<"2">>
    /\ env["startup"] = "ImportError"
    /\ Called(Pip)
    /\ Called(FuncImport)
    /\ env["import"] = "ImportError"
    /\ pc = "done"

\* the place of each external call in the fixed sequence of a run
C3_Rank(c) ==
    CASE c = StartupImport -> 0
      [] c = Pip -> 1
      [] c = MenuPrompt -> 2
      [] c = SizePrompt -> 3
      [] c = FuncImport -> 4
      [] c = "YOLO" -> 5
      [] c = "export" -> 6
      [] c = "exists" -> 7
      [] c = "stat" -> 8

(* C3: a run is a prefix of install, menu prompt, load then export,         *)
(* existence check: pip runs iff the startup import raised ImportError and  *)
(* only before the menu prompt; load and export only after the menu was     *)
(* answered "1" or "2"; the existence check only after export() returned.   *)
C3_FixedSequence ==
    /\ \A i, j \in DOMAIN calls : i < j => C3_Rank(calls[i]) < C3_Rank(calls[j])
    /\ Called(Pip) => env["startup"] = "ImportError"
    /\ (env["startup"] = "ImportError" /\ pc # "install") => Called(Pip)
    /\ (env["startup"] # "ImportError" /\ pc # "start") => ~Called(Pip)
    /\ (Called("YOLO") \/ Called("export")) =>
            (Called(MenuPrompt) /\ choice \in {<<"1">>, <<"2">>})
    /\ Called("export") => (Called("YOLO") /\ env["load"] = "ok")
    /\ Called("exists") => (Called("export") /\ env["export"] = "ok")

\* a run that went through all four stages
C3_Witness ==
    /\ Called(Pip)
    /\ Called(MenuPrompt)
    /\ Called("export")
    /\ Called("exists")
    /\ pc = "done"

\* each external call made at most once; a conversion failed or an input was invalid
C4_AtMostOnce ==
    /\ \A c \in {StartupImport, Pip, MenuPrompt, SizePrompt, FuncImport,
                 "YOLO", "export", "exists"} : Count(calls, c) <= 1
    /\ Len(loads) <= 1
    /\ Len(exports) <= 1
    /\ Len(checks) <= 1

C4_Failed ==
    \/ success \in {"False", "None"}
    \/ raised # "none"
    \/ Printed("Invalid choice")

(* C4: no retry: pip, each prompt, the in-function import, the model load   *)
(* and export() happen at most once per run, and once a conversion has      *)
(* failed or an input was invalid no further external call is made.         *)
C4_NoRetry == [][C4_AtMostOnce' /\ (C4_Failed => calls' = calls)]_vars

\* pip failed, then export() raised, and the run ended
C4_Witness ==
    /\ env["pip"] = "failed"
    /\ env["export"] = "Exception"
    /\ Called("export")
    /\ pc = "done"

(* C5: every export() call gets the same fixed keyword arguments; option 1  *)
(* loads 'yolov8n.pt'; option 2 loads 'yolov8<c>.pt' with <c> the           *)
(* lower-cased size line, one of n, s, m, l, x; the path checked is         *)
(* 'yolov8<c>.mlpackage' for the same <c>.                                  *)
C5_FixedConfiguration ==
    /\ \A i \in DOMAIN exports : exports[i] = FixedConfiguration
    /\ choice = <<"1">> =>
        /\ \A i \in DOMAIN loads : loads[i] = Weights_n
        /\ \A i \in DOMAIN checks : checks[i] = Package_n
    /\ choice = <<"2">> =>
        \A i \in DOMAIN loads :
            /\ Len(sizeIn) = 1
            /\ \E p \in SizeCodes :
                /\ p[1] = sizeIn[1]
                /\ loads[i] = <<"y", "o", "l", "o", "v", "8", p[2], ".", "p", "t">>
                /\ \A j \in DOMAIN checks :
                     checks[j] = <<"y", "o", "l", "o", "v", "8", p[2], ".", "m", "l",
                                   "p", "a", "c", "k", "a", "g", "e">>
    /\ checks # <<>> => loads # <<>>

\* option 2 with the size typed in upper case, up to the existence check
C5_Witness ==
    /\ choice = <<"2">>
    /\ sizeIn = <<"X">>
    /\ exports # <<>>
    /\ checks # <<>>

(* C6: both conversion functions return True iff export() returned and the  *)
(* package exists at the check, and exactly False (never None) otherwise;   *)
(* when the package is missing after export() a 'not found' failure is      *)
(* printed.                                                                 *)
C6_ReturnsBoolean ==
    pc = "verdict" =>
        /\ success \in {"True", "False"}
        /\ success = "True" <=> ExportedAndFound
        /\ CheckedAndMissing => Printed("Model file not found after conversion")

(* C7: a main-menu line other than exactly "1", "2", "3" makes main() print *)
(* 'Invalid choice' and return with no conversion and no final message; a   *)
(* size line that does not lower-case to one of n, s, m, l, x makes         *)
(* convert_different_sizes() print 'Invalid choice' and return False with   *)
(* no import, load or export, and main() prints 'Conversion failed'.        *)
C7_InvalidInput ==
    /\ (choice # Unset /\ choice \notin {<<"1">>, <<"2">>, <<"3">>}) =>
        /\ pc = "done"
        /\ raised = "none"
        /\ Printed("Invalid choice")
        /\ NoConversion
        /\ ~Called(SizePrompt)
        /\ Count(calls, MenuPrompt) = 1
        /\ NoVerdict
    /\ (sizeIn # Unset /\ ~ValidSizeLine(sizeIn)) =>
        /\ pc \in {"verdict", "done"}
        /\ raised = "none"
        /\ success = "False"
        /\ Printed("Invalid choice")
        /\ NoConversion
        /\ Count(calls, SizePrompt) = 1
        /\ ~Printed(FinalSuccess)
        /\ pc = "done" => out[Len(out)] = FinalFailed

\* option 2 answered with an empty size line
C7_Witness ==
    /\ choice = <<"2">>
    /\ sizeIn = <<>>
    /\ pc = "done"

(* C8: for menu choice "1" or "2" main() prints exactly one final message,  *)
(* the success one iff export() returned and the package existed at the     *)
(* check; and no 'created successfully' message is printed in a run in      *)
(* which the package does not exist at the check.                           *)
C8_VerdictMatches ==
    /\ (pc = "done" /\ raised = "none" /\ choice \in {<<"1">>, <<"2">>}) =>
        /\ Count(out, FinalSuccess) + Count(out, FinalFailed) = 1
        /\ Printed(FinalSuccess) <=> ExportedAndFound
    /\ CheckedAndMissing =>
        /\ ~Printed("YOLOv8n Core ML model created successfully!")
        /\ ~Printed("{model_name}.mlpackage created successfully!")

\* the two invocations compared
C9_IsOption1(o) == o.choice = <<"1">>
C9_IsOption2n(o) == o.choice = <<"2">> /\ o.size = <<"n">>

(* C9: option 2 with size 'n' or 'N' is equivalent to option 1: in the same *)
(* environment both load the same weights, call export() with the same      *)
(* arguments, check the same path, return the same value to main() and end  *)
(* with the same final message.                                             *)
C9_Option2nEqualsOption1 ==
    (pc = "done" /\ run = 2 /\ first # <<>>) =>
        LET a == first[1]
            b == Observed
        IN  ((C9_IsOption1(a) /\ C9_IsOption2n(b)) \/ (C9_IsOption2n(a) /\ C9_IsOption1(b))) =>
                /\ a.loads = b.loads
                /\ a.exports = b.exports
                /\ a.checks = b.checks
                /\ a.raised = b.raised
                /\ a.success = b.success
                /\ a.final = b.final

\* the number of reads of standard input
C10_Reads == Count(calls, MenuPrompt) + Count(calls, SizePrompt)

(* C10: every run of main() terminates when each external call returns or  *)
(* raises; standard input is read at most twice, the size only after the    *)
(* menu was answered "2", and nothing is done after the end.                *)
C10_Terminates ==
    /\ [](C10_Reads <= 2 /\ (Called(SizePrompt) => choice = <<"2">>))
    /\ <>[](pc = "done")

\* a finished run that read standard input twice
C10_Witness ==
    /\ pc = "done"
    /\ C10_Reads = 2
    /\ Printed(FinalSuccess)

====
